---- MODULE Spec2Model ----
(***************************************************************************)
(* State-machine model of the single-file course application              *)
(* src/street_smarts_style_dropshipping_course_website.jsx: the App        *)
(* component's state (course, selection, progress, profile), the           *)
(* LessonViewer's transient answers, the AdminAddModule title field, the   *)
(* browser's localStorage and clock, and one action per event handler.     *)
(* Every action includes the React effects the handler's state update      *)
(* triggers before the next event is handled (useEffect at lines 166 and   *)
(* 276).                                                                   *)
(***************************************************************************)
EXTENDS Integers, Sequences, FiniteSets, TLC

VARIABLES
    course,          \* useState(() => SAMPLE_COURSE), line 269
    isAdmin,         \* useState(false), line 270
    activeModuleId,  \* line 271
    activeLessonId,  \* line 272
    progress,        \* useState(() => loadProgress()), line 273
    profile,         \* useState({ name: "" }), line 274
    answers,         \* LessonViewer: useState({}), line 165
    title,           \* AdminAddModule: useState(""), line 400
    localStorage,    \* the browser's storage bucket: key -> text
    now,             \* the clock reading of the latest Date.now(), line 403
    shown            \* what the event handled last opened: "none", the
                     \* alert of line 346 or the print window of line 347

vars == <<course, isAdmin, activeModuleId, activeLessonId, progress, profile,
          answers, title, localStorage, now, shown>>

-----------------------------------------------------------------------------
(* Bounds of the model *)

\* lesson ids a stored record may hold that the current course does not have
MaxStale == 1
\* modules the admin drawer may append
MaxAdded == 2
\* questions of a quiz, where the quiz is drawn instead of taken from the sample
MaxQuestions == 2

-----------------------------------------------------------------------------
(* Course data *)

\* A question keeps the number of its options and the index of the right one;
\* a lesson keeps its id and its quiz. Texts, videos and descriptions are
\* presentation only.
SAMPLE_COURSE ==
    [ title |-> "The Complete Dropshipping Blueprint",
      modules |-> <<
        [ id |-> "m1", title |-> "Introduction & Mindset",
          lessons |-> <<
            [ id |-> "m1l1", quiz |-> << [options |-> 2, a |-> 1] >> ],
            [ id |-> "m1l2", quiz |-> << >> ] >> ],
        [ id |-> "m2", title |-> "Product Research",
          lessons |-> <<
            [ id |-> "m2l1", quiz |-> << [options |-> 3, a |-> 2] >> ] >> ] >> ]

STORAGE_KEY == "dropship_streetsmarts_progress_v1"

\* the ids of the lessons of course c
LessonIds(c) ==
    UNION { { c.modules[i].lessons[j].id : j \in 1..Len(c.modules[i].lessons) }
            : i \in 1..Len(c.modules) }

StaleIds == { "old" \o ToString(i) : i \in 1..MaxStale }

Min(S) == CHOOSE x \in S : \A y \in S : x <= y

-----------------------------------------------------------------------------
(* JavaScript objects are maps from keys to values; {} is the empty map. *)

EmptyObject == << >>

\* { ...obj, [key]: value }
Spread(obj, key, value) ==
    [ k \in (DOMAIN obj) \cup {key} |-> IF k = key THEN value ELSE obj[k] ]

\* obj[key] used as a condition: undefined (a missing key) is falsy
Truthy(obj, key) == key \in DOMAIN obj /\ obj[key]

EmptyProgress == [ completedLessons |-> EmptyObject, quizScores |-> EmptyObject ]

-----------------------------------------------------------------------------
(* Persistence: localStorage holds text. The text JSON.stringify writes for  *)
(* a progress record is modelled by its members: each key of an object with  *)
(* the literal of its value ("true", or the decimal digits of a number).     *)
(* Text that is not JSON is CorruptText.                                     *)

CorruptText == [ ok |-> FALSE, completedLessons |-> {}, quizScores |-> {} ]

BooleanLiteral(b) == IF b THEN "true" ELSE "false"

\* a serializer that writes the completed lessons only
stringifyWithoutScores(p) ==
    [ ok |-> TRUE,
      completedLessons |->
        { <<k, BooleanLiteral(p.completedLessons[k])>> : k \in DOMAIN p.completedLessons },
      quizScores |-> {} ]

JSONstringify(p) ==
    [ ok |-> TRUE,
      completedLessons |->
        { <<k, BooleanLiteral(p.completedLessons[k])>> : k \in DOMAIN p.completedLessons },
      quizScores |->
        { <<k, ToString(p.quizScores[k].score), ToString(p.quizScores[k].outOf)>>
          : k \in DOMAIN p.quizScores } ]

\* the number a literal of decimal digits denotes
ParseNumber(digits) == CHOOSE n \in 0..MaxQuestions : ToString(n) = digits

\* JSON.parse of a text that is JSON (it throws on any other)
JSONparse(text) ==
    [ completedLessons |->
        [ k \in { m[1] : m \in text.completedLessons } |->
            (CHOOSE m \in text.completedLessons : m[1] = k)[2] = "true" ],
      quizScores |->
        [ k \in { m[1] : m \in text.quizScores } |->
            LET m == CHOOSE x \in text.quizScores : x[1] = k
            IN  [ score |-> ParseNumber(m[2]), outOf |-> ParseNumber(m[3]) ] ] ]

\* localStorage.setItem(key, text), localStorage.removeItem(key)
setItem(store, key, text) ==
    [ k \in (DOMAIN store) \cup {key} |-> IF k = key THEN text ELSE store[k] ]

removeItem(store, key) == [ k \in (DOMAIN store) \ {key} |-> store[k] ]

\* loadProgress(): a missing key (getItem gives null) and a text JSON.parse
\* throws on both give the default record
loadProgress(store) ==
    IF STORAGE_KEY \notin DOMAIN store
    THEN EmptyProgress
    ELSE IF store[STORAGE_KEY].ok
         THEN JSONparse(store[STORAGE_KEY])
         ELSE EmptyProgress

\* saveProgress(progress): the storage after it
saveProgress(store, p) == setItem(store, STORAGE_KEY, JSONstringify(p))

-----------------------------------------------------------------------------
(* Derived values of App *)

\* modules.find(m => m.id === id) and lessons.find(l => l.id === id): the
\* first match, as a sequence of at most one element (<<>> is undefined)
find(seq, id) ==
    LET I == { i \in 1..Len(seq) : seq[i].id = id }
    IN  IF I = {} THEN << >> ELSE << seq[Min(I)] >>

\* the activeLesson memo, lines 278-281: <<>> is null
activeLesson(c, mId, lId) ==
    LET mod == find(c.modules, mId)
    IN  IF mod = << >> THEN << >> ELSE find(mod[1].lessons, lId)

\* lesson?.id, the dependency of the effect at line 166
lessonIdOf(lesson) == IF lesson = << >> THEN "undefined" ELSE lesson[1].id

RECURSIVE sumLessons(_, _)
\* course.modules.reduce((s, m) => s + m.lessons.length, 0), from module i on
sumLessons(modules, i) ==
    IF i > Len(modules) THEN 0
    ELSE Len(modules[i].lessons) + sumLessons(modules, i + 1)

totalLessons(c) == sumLessons(c.modules, 1)

\* Object.keys(progress.completedLessons).length
completedCount(p) == Cardinality(DOMAIN p.completedLessons)

\* Math.round(x) for x = num / den >= 0: the nearest integer, halves up
MathRound(num, den) == (2 * num + den) \div (2 * den)

\* Math.round((completedCount / totalLessons) * 100) || 0. The first branch
\* is the 0/0 case (NaN, which || turns into 0); it is never taken, and
\* neither is n/0 = Infinity: line 272 needs a first lesson and no event adds
\* or removes a lesson, so totalLessons stays 3.
pct(c, p) ==
    IF totalLessons(c) = 0 THEN 0
    ELSE MathRound(completedCount(p) * 100, totalLessons(c))

\* `some` module in place of `every` module
someModuleDone(c, p) ==
    \E i \in 1..Len(c.modules) :
        \A j \in 1..Len(c.modules[i].lessons) :
            Truthy(p.completedLessons, c.modules[i].lessons[j].id)

\* course.modules.every(m => m.lessons.every(l => progress.completedLessons[l.id]))
allDone(c, p) ==
    \A i \in 1..Len(c.modules) :
        \A j \in 1..Len(c.modules[i].lessons) :
            Truthy(p.completedLessons, c.modules[i].lessons[j].id)

-----------------------------------------------------------------------------
(* Progress updates (the functions given to setProgress) *)

\* an update that forgets the spread of p: only completedLessons survives
markCompleteWithoutSpread(p, lessonId) ==
    [ completedLessons |-> Spread(p.completedLessons, lessonId, TRUE),
      quizScores |-> EmptyObject ]

\* markComplete, line 289: p => ({ ...p, completedLessons: { ...p.completedLessons, [lessonId]: true } })
markCompleteUpdate(p, lessonId) ==
    [ p EXCEPT !.completedLessons = Spread(p.completedLessons, lessonId, TRUE) ]

\* handleQuizSubmit, line 293: p => ({ ...p, quizScores: { ...p.quizScores, [lessonId]: { score, outOf } } })
quizScoreUpdate(p, lessonId, score, outOf) ==
    [ p EXCEPT !.quizScores =
        Spread(p.quizScores, lessonId, [ score |-> score, outOf |-> outOf ]) ]

\* a strict threshold: score / outOf > 0.5
quizPassedStrict(score, outOf) == 2 * score > outOf

\* score / outOf >= 0.5, line 295 (outOf >= 1: the form is rendered only
\* for a quiz with questions)
quizPassed(score, outOf) == 2 * score >= outOf

\* handleQuizSubmit, lines 292-298: both queued updates, in order
handleQuizSubmit(p, lessonId, score, outOf) ==
    LET scored == quizScoreUpdate(p, lessonId, score, outOf)
    IN  IF quizPassed(score, outOf) THEN markCompleteUpdate(scored, lessonId) ELSE scored

RECURSIVE gradeFrom(_, _, _, _)
\* the forEach of lines 202-205 from question index i (0-based) on:
\* if (answers[i] === q.a) score++ ; a missing answers[i] is undefined
gradeFrom(quiz, ans, i, score) ==
    IF i >= Len(quiz) THEN score
    ELSE gradeFrom(quiz, ans, i + 1,
                   IF i \in DOMAIN ans /\ ans[i] = quiz[i + 1].a
                   THEN score + 1 ELSE score)

\* a loop that starts at the second question
gradeFromSecond(quiz, ans) == gradeFrom(quiz, ans, 1, 0)

grade(quiz, ans) == gradeFrom(quiz, ans, 0, 0)

\* no effect: the answers outlive the lesson
answersKept(ans, before, after) == ans

\* the effect of line 166 after a render in which the viewer's lesson went
\* from `before` to `after`: setAnswers({}) when lesson?.id changed
answersEffect(ans, before, after) ==
    IF lessonIdOf(after) # lessonIdOf(before) THEN EmptyObject ELSE ans

-----------------------------------------------------------------------------
(* Events *)

current == activeLesson(course, activeModuleId, activeLessonId)

\* a handler that sets the lesson and leaves the module
selectLessonOnly(i, j) ==
    /\ i \in 1..Len(course.modules)
    /\ j \in 1..Len(course.modules[i].lessons)
    /\ activeLessonId' = course.modules[i].lessons[j].id
    /\ answers' = answersEffect(answers, current,
                                activeLesson(course, activeModuleId, activeLessonId'))
    /\ shown' = "none"
    /\ UNCHANGED <<course, isAdmin, activeModuleId, progress, profile, title,
                   localStorage, now>>

\* Sidebar, line 145: a click on lesson j of module i calls
\* handleSelectLesson(m.id, l.id), lines 283-286
handleSelectLesson(i, j) ==
    /\ i \in 1..Len(course.modules)
    /\ j \in 1..Len(course.modules[i].lessons)
    /\ activeModuleId' = course.modules[i].id
    /\ activeLessonId' = course.modules[i].lessons[j].id
    /\ answers' = answersEffect(answers, current,
                                activeLesson(course, activeModuleId', activeLessonId'))
    /\ shown' = "none"
    /\ UNCHANGED <<course, isAdmin, progress, profile, title, localStorage, now>>

SelectLesson == \E i \in 1..Len(course.modules) :
                    \E j \in 1..Len(course.modules[i].lessons) : handleSelectLesson(i, j)

\* the radio input of lines 220-226: setAnswers(s => ({ ...s, [idx]: oi }))
SelectOption ==
    /\ current # << >>
    /\ \E idx \in 0..(Len(current[1].quiz) - 1) :
         \E oi \in 0..(current[1].quiz[idx + 1].options - 1) :
            answers' = Spread(answers, idx, oi)
    /\ shown' = "none"
    /\ UNCHANGED <<course, isAdmin, activeModuleId, activeLessonId, progress,
                   profile, title, localStorage, now>>

\* the Mark Complete button, line 185, then the effect of line 276
MarkComplete ==
    /\ current # << >>
    /\ progress' = markCompleteUpdate(progress, current[1].id)
    /\ localStorage' = saveProgress(localStorage, progress')
    /\ shown' = "none"
    /\ UNCHANGED <<course, isAdmin, activeModuleId, activeLessonId, profile,
                   answers, title, now>>

\* the quiz form's onSubmit, lines 199-207, then the effect of line 276
SubmitQuiz ==
    /\ current # << >>
    /\ Len(current[1].quiz) > 0
    /\ progress' = handleQuizSubmit(progress, current[1].id,
                                    grade(current[1].quiz, answers), Len(current[1].quiz))
    /\ shown' = "none"
    /\ localStorage' = saveProgress(localStorage, progress')
    /\ UNCHANGED <<course, isAdmin, activeModuleId, activeLessonId, profile,
                   answers, title, now>>

ProfileNames == { "", "Ann" }

\* the name input, line 337
SetProfile ==
    /\ \E name \in ProfileNames : profile' = [ profile EXCEPT !.name = name ]
    /\ shown' = "none"
    /\ UNCHANGED <<course, isAdmin, activeModuleId, activeLessonId, progress,
                   answers, title, localStorage, now>>

\* Quick Print Certificate, lines 343-350: an alert, or the print window
PrintCertificate ==
    /\ shown' = IF allDone(course, progress) THEN "window" ELSE "alert"
    /\ UNCHANGED <<course, isAdmin, activeModuleId, activeLessonId, progress,
                   profile, answers, title, localStorage, now>>

\* the Admin Mode button of the header, line 306. The drawer, and the
\* AdminAddModule in it, is mounted only while isAdmin (line 371): its title
\* field starts empty at every mount.
ToggleAdmin ==
    /\ isAdmin' = ~isAdmin
    /\ title' = ""
    /\ shown' = "none"
    /\ UNCHANGED <<course, activeModuleId, activeLessonId, progress, profile,
                   answers, localStorage, now>>

\* the drawer's Close button, line 375
CloseAdmin ==
    /\ isAdmin
    /\ isAdmin' = FALSE
    /\ title' = ""
    /\ shown' = "none"
    /\ UNCHANGED <<course, activeModuleId, activeLessonId, progress, profile,
                   answers, localStorage, now>>

CourseTitles == { SAMPLE_COURSE.title, "Edited" }

\* the Course Title input, line 379: setCourse({ ...course, title })
SetCourseTitle ==
    /\ isAdmin
    /\ \E t \in CourseTitles : course' = [ course EXCEPT !.title = t ]
    /\ answers' = answersEffect(answers, current,
                                activeLesson(course', activeModuleId, activeLessonId))
    /\ shown' = "none"
    /\ UNCHANGED <<isAdmin, activeModuleId, activeLessonId, progress, profile,
                   title, localStorage, now>>

ModuleTitles == { "", "New" }

\* the Module title input, line 411
SetTitle ==
    /\ isAdmin
    /\ \E t \in ModuleTitles : title' = t
    /\ shown' = "none"
    /\ UNCHANGED <<course, isAdmin, activeModuleId, activeLessonId, progress,
                   profile, answers, localStorage, now>>

\* `m_${Date.now()}`, line 403
moduleId(t) == "m_" \o ToString(t)

\* add() of lines 401-407 with Date.now() reading t
add(t) ==
    IF title = ""
    THEN UNCHANGED <<course, title, now, answers>>
    ELSE /\ now' = t
         /\ course' = [ course EXCEPT !.modules =
                          Append(@, [ id |-> moduleId(t), title |-> title,
                                      lessons |-> << >> ]) ]
         /\ title' = ""
         /\ answers' = answersEffect(answers, current,
                                     activeLesson(course', activeModuleId, activeLessonId))

\* the Add button, line 412. Since the reading before, the clock has either
\* not advanced or advanced; by how much does not matter to the id, so one
\* tick stands for any advance.
AddModule ==
    /\ isAdmin
    /\ Len(course.modules) < Len(SAMPLE_COURSE.modules) + MaxAdded
    /\ \E t \in { now, now + 1 } : add(t)
    /\ shown' = "none"
    /\ UNCHANGED <<isAdmin, activeModuleId, activeLessonId, progress, profile,
                   localStorage>>

\* Reset Progress, line 386: removeItem, setProgress, then the effect of
\* line 276 on the new progress
ResetProgress ==
    /\ isAdmin
    /\ progress' = EmptyProgress
    /\ localStorage' = saveProgress(removeItem(localStorage, STORAGE_KEY), progress')
    /\ shown' = "none"
    /\ UNCHANGED <<course, isAdmin, activeModuleId, activeLessonId, profile,
                   answers, title, now>>

-----------------------------------------------------------------------------
(* Initial states *)

\* the progress records an earlier session may have stored: the lessons of
\* this course completed in any combination, and with them none or all of
\* the lessons of an earlier edition of the course, those by passing their
\* one-question quizzes
StoredRecords ==
    { [ completedLessons |-> [ k \in S \cup T |-> TRUE ],
        quizScores |-> [ k \in T |-> [ score |-> 1, outOf |-> 1 ] ] ]
      : S \in SUBSET LessonIds(SAMPLE_COURSE), T \in { {}, StaleIds } }

\* what the storage bucket may hold when the page is opened
InitialStorage ==
    { EmptyObject }
    \cup { [ k \in {STORAGE_KEY} |-> text ]
           : text \in {CorruptText} \cup { JSONstringify(r) : r \in StoredRecords } }

\* App's first render, lines 269-274, with the course c and the storage
\* `store`, and the mount effects of lines 166 and 276
Mounted(c, store) ==
    /\ course = c
    /\ isAdmin = FALSE
    /\ activeModuleId = c.modules[1].id
    /\ activeLessonId = c.modules[1].lessons[1].id
    /\ progress = loadProgress(store)
    /\ profile = [ name |-> "" ]
    /\ answers = EmptyObject
    /\ title = ""
    /\ localStorage = saveProgress(store, progress)
    /\ now = 0
    /\ shown = "none"

Init == \E store \in InitialStorage : Mounted(SAMPLE_COURSE, store)

Next ==
    \/ SelectLesson
    \/ SelectOption
    \/ MarkComplete
    \/ SubmitQuiz
    \/ SetProfile
    \/ PrintCertificate
    \/ ToggleAdmin
    \/ CloseAdmin
    \/ SetCourseTitle
    \/ SetTitle
    \/ AddModule
    \/ ResetProgress

Spec == Init /\ [][Next]_vars

-----------------------------------------------------------------------------
(* The lesson viewer and the progress store over any quiz: the sample       *)
(* course with the quiz of its first lesson replaced by one of up to        *)
(* MaxQuestions two-option questions, opened on an empty storage bucket.    *)

Questions == { [ options |-> 2, a |-> a ] : a \in 0..1 }

Quizzes == UNION { [ 1..n -> Questions ] : n \in 1..MaxQuestions }

withQuiz(c, quiz) == [ c EXCEPT !.modules[1].lessons[1].quiz = quiz ]

InitQuiz == \E quiz \in Quizzes : Mounted(withQuiz(SAMPLE_COURSE, quiz), EmptyObject)

NextQuiz ==
    \/ SelectLesson
    \/ SelectOption
    \/ MarkComplete
    \/ SubmitQuiz

SpecQuiz == InitQuiz /\ [][NextQuiz]_vars

-----------------------------------------------------------------------------
(* Properties *)

\* the lessons a progress record counts as completed
Completed(p) == { k \in DOMAIN p.completedLessons : p.completedLessons[k] }

EveryLessonCompleted == LessonIds(course) \subseteq Completed(progress)

\* the questions of `quiz` (0-based) that `ans` answers correctly
CorrectlyAnswered(quiz, ans) ==
    { i \in 0..(Len(quiz) - 1) : i \in DOMAIN ans /\ ans[i] = quiz[i + 1].a }

\* C1: with at least one lesson in the course, the displayed percentage is an
\* integer in 0..100 and is 100 exactly when every lesson of the course is
\* completed, whatever record was loaded from storage.
C1_PercentMatchesEligibility ==
    totalLessons(course) > 0 =>
        /\ pct(course, progress) \in 0..100
        /\ pct(course, progress) = 100 <=> EveryLessonCompleted

\* C2: a quiz submission for the active lesson L stores {score, outOf} with
\* outOf >= 1 under L; a score of at least half (1 of 2 included) leaves L
\* completed; a lower score leaves L's completion as it was.
C2_QuizSubmission ==
    [][ SubmitQuiz =>
          LET L == activeLessonId
          IN  /\ L \in DOMAIN progress'.quizScores
              /\ progress'.quizScores[L].outOf = Len(current[1].quiz)
              /\ progress'.quizScores[L].outOf >= 1
              /\ progress'.quizScores[L].score \in 0..progress'.quizScores[L].outOf
              /\ 2 * progress'.quizScores[L].score >= progress'.quizScores[L].outOf
                    => L \in Completed(progress')
              /\ 2 * progress'.quizScores[L].score < progress'.quizScores[L].outOf
                    => (L \in Completed(progress') <=> L \in Completed(progress)) ]_vars

\* C2's case: the two-question quiz submitted with one right answer, and the
\* lesson completed
C2_Witness ==
    /\ "m1l1" \in DOMAIN progress.quizScores
    /\ progress.quizScores["m1l1"] = [ score |-> 1, outOf |-> 2 ]
    /\ Completed(progress) = { "m1l1" }
    /\ Len(course.modules[1].lessons[1].quiz) = 2

\* C3: after every event, the text stored under the storage key exists, is
\* JSON and parses to the in-memory progress record, so loadProgress() at
\* that point returns the current progress.
C3_WriteThrough ==
    /\ STORAGE_KEY \in DOMAIN localStorage
    /\ localStorage[STORAGE_KEY].ok
    /\ JSONparse(localStorage[STORAGE_KEY]) = progress
    /\ loadProgress(localStorage) = progress

\* C3's case: a failed quiz and a completed lesson of this session, stored
C3_Witness ==
    /\ "m2l1" \in DOMAIN progress.quizScores
    /\ progress.quizScores["m2l1"] = [ score |-> 0, outOf |-> 1 ]
    /\ "m1l2" \in Completed(progress)
    /\ STORAGE_KEY \in DOMAIN localStorage
    /\ <<"m2l1", "0", "1">> \in localStorage[STORAGE_KEY].quizScores
    /\ <<"m1l2", "true">> \in localStorage[STORAGE_KEY].completedLessons

\* C4: after Reset Progress the in-memory progress is empty and no value is
\* present under the storage key.
C4_ResetRemovesStoredRecord ==
    [][ ResetProgress =>
          /\ progress' = EmptyProgress
          /\ STORAGE_KEY \notin DOMAIN localStorage' ]_vars

\* C5: the selection starts at the first lesson of the first module and
\* always names a module of the course and a lesson of that module, so the
\* active lesson never resolves to null.
C5_SelectionResolves ==
    /\ activeModuleId = SAMPLE_COURSE.modules[1].id
    /\ activeLessonId = SAMPLE_COURSE.modules[1].lessons[1].id
    /\ [](/\ \E i \in 1..Len(course.modules) :
                /\ course.modules[i].id = activeModuleId
                /\ \E j \in 1..Len(course.modules[i].lessons) :
                      course.modules[i].lessons[j].id = activeLessonId
          /\ current # << >>
          /\ current[1].id = activeLessonId)

\* C5's case: another lesson selected, modules added and the title edited
C5_Witness ==
    /\ activeModuleId = "m2"
    /\ activeLessonId = "m2l1"
    /\ Len(course.modules) = Len(SAMPLE_COURSE.modules) + 2
    /\ course.title = "Edited"
    /\ progress = EmptyProgress

\* C6: the module ids of the course are pairwise distinct and so are its
\* lesson ids, also after two adds at the same clock reading.
C6_IdsUnique ==
    /\ \A i, j \in 1..Len(course.modules) :
          course.modules[i].id = course.modules[j].id => i = j
    /\ \A i, j \in 1..Len(course.modules) :
          \A k \in 1..Len(course.modules[i].lessons) :
             \A l \in 1..Len(course.modules[j].lessons) :
                course.modules[i].lessons[k].id = course.modules[j].lessons[l].id
                   => (i = j /\ k = l)

\* C7: a submission stores outOf = the number of questions and score = the
\* number of questions whose selected option is the correct one, unanswered
\* questions counting as wrong: all correct gives score = outOf, no answers
\* gives 0, and 0 <= score <= outOf.
C7_Grading ==
    [][ SubmitQuiz =>
          LET quiz == current[1].quiz
              got == progress'.quizScores[activeLessonId]
          IN  /\ got.outOf = Len(quiz)
              /\ got.score = Cardinality(CorrectlyAnswered(quiz, answers))
              /\ 0 <= got.score /\ got.score <= got.outOf
              /\ answers = EmptyObject => got.score = 0
              /\ (\A i \in 0..(Len(quiz) - 1) :
                     i \in DOMAIN answers /\ answers[i] = quiz[i + 1].a)
                    => got.score = got.outOf ]_vars

\* C7's case: a two-question quiz graded 1 of 2 with its second question
\* unanswered
C7_Witness ==
    /\ Len(current[1].quiz) = 2
    /\ DOMAIN answers = { 0 }
    /\ answers[0] = current[1].quiz[1].a
    /\ activeLessonId \in DOMAIN progress.quizScores
    /\ progress.quizScores[activeLessonId] = [ score |-> 1, outOf |-> 2 ]

\* C8: a print request opens the print window only when every lesson of the
\* course is completed; otherwise it shows the alert and changes nothing of
\* course, progress, selection, profile and storage.
C8_CertificateGate ==
    [][ /\ PrintCertificate => shown' \in { "window", "alert" }
        /\ shown' = "window" => EveryLessonCompleted
        /\ (PrintCertificate /\ ~EveryLessonCompleted) =>
              /\ shown' = "alert"
              /\ UNCHANGED <<course, progress, activeModuleId, activeLessonId,
                             profile, localStorage>> ]_vars

\* C8's case: the print window opened with every lesson completed, in a
\* course that also has an added module and a stale completed lesson
C8_Witness ==
    /\ shown = "window"
    /\ Len(course.modules) > Len(SAMPLE_COURSE.modules)
    /\ Completed(progress) \ LessonIds(course) # {}

\* C9: markComplete applied twice gives the record it gives applied once;
\* an application leaves quizScores and every other lesson's completion
\* alone; and only Reset Progress ever takes a lesson out of completedLessons.
C9_MarkCompleteIdempotent ==
    /\ [](\A l \in LessonIds(course) :
             markCompleteUpdate(markCompleteUpdate(progress, l), l)
                = markCompleteUpdate(progress, l))
    /\ [][ MarkComplete =>
             /\ activeLessonId \in Completed(progress')
             /\ progress'.quizScores = progress.quizScores
             /\ Completed(progress') \ { activeLessonId }
                   = Completed(progress) \ { activeLessonId } ]_vars
    /\ [][ Completed(progress) \subseteq Completed(progress')
              \/ ResetProgress ]_vars

\* C9's case: lessons completed by hand beside a stored quiz score
C9_Witness ==
    /\ Completed(progress) = { "m1l1", "m1l2" }
    /\ "m1l1" \in DOMAIN progress.quizScores
    /\ progress.quizScores["m1l1"] = [ score |-> 0, outOf |-> 1 ]
    /\ "m2l1" \in DOMAIN progress.quizScores

\* C10: a step that selects an option changes the answers only; and when
\* the active lesson becomes another lesson the answers are empty again.
C10_AnswersTransient ==
    [][ /\ (answers' # answers /\ answers' # EmptyObject) =>
              /\ UNCHANGED <<course, progress, activeModuleId, activeLessonId,
                             profile, localStorage>>
              /\ \E idx \in 0..(Len(current[1].quiz) - 1) :
                    /\ idx \in DOMAIN answers'
                    /\ \A i \in DOMAIN answers' \ { idx } :
                          i \in DOMAIN answers /\ answers'[i] = answers[i]
        /\ activeLessonId' # activeLessonId => answers' = EmptyObject ]_vars

\* C10's case: the third option of the second module's question chosen after
\* an option of the first lesson was chosen and the learner moved on
C10_Witness ==
    /\ activeLessonId = "m2l1"
    /\ answers = (0 :> 2)
    /\ "m1l1" \in DOMAIN progress.quizScores
    /\ progress.quizScores["m1l1"] = [ score |-> 1, outOf |-> 1 ]

=============================================================================
